---- MODULE Spec2Model ----
(***************************************************************************)
(* The live audio session of src/services/geminiService.ts: the class      *)
(* LiveSession (constructor, onOpen, onMessage, disconnect) together with  *)
(* the decode helper it calls, and the PCM and base64 codec of the same    *)
(* file (decode, decodeAudioData, base64EncodeAudio).                      *)
(*                                                                         *)
(* Time is counted in sample periods of the output context (1/SampleRate   *)
(* of a second), so that AudioBuffer.duration = length / sampleRate is the *)
(* buffer's frame count and every time the code computes is an integer.    *)
(*                                                                         *)
(* JavaScript runs one callback at a time; an async method is one action   *)
(* per run-to-completion segment, cut at each await.                       *)
(***************************************************************************)
EXTENDS Integers, Sequences, FiniteSets

VARIABLES
    session,        \* the duplex connection: "connecting", "open", "error" or "closed"
    inputContext,   \* capture AudioContext: "running" or "closed"
    outputContext,  \* playback AudioContext: "running" or "closed"
    inputSource,    \* field inputSource: "null" or "node"
    processor,      \* field processor: "null" or "node"
    stream,         \* the microphone MediaStream: "none", "live" or "stopped"
    nextStartTime,  \* field nextStartTime, in sample periods
    currentTime,    \* outputContext.currentTime, in sample periods
    onOpenPc,       \* onOpen: "idle", "getUserMedia" (suspended) or "done"
    pending,        \* onMessage invocations suspended at the decode await, oldest first
    history,        \* one record per resumed onMessage, in order
    calls,          \* disconnect invocations, in call order: each one's position
    released,       \* per resource, how often its release operation was invoked
    micRequests,    \* number of getUserMedia calls
    received,       \* number of inbound messages delivered to onMessage
    connectRequests, \* number of ai.live.connect calls
    resolved,       \* whether the promise this.session has resolved
    captured,       \* the frames delivered to onaudioprocess, in order
    deferred,       \* encoded frames whose then-callback waits for this.session
    sent,           \* the data of the sendRealtimeInput calls, in order
    stage,          \* codec run: "idle", "samples", "payload", "encoded", "decoded", "done"
    floats,         \* codec run: the samples given to base64EncodeAudio
    bytes,          \* codec run: the bytes that were encoded to text
    text,           \* codec run: the base64 text
    back,           \* codec run: the bytes decode() returned
    audioBuffer,    \* codec run: the outcome of decodeAudioData
    mounted,        \* App: the component is mounted
    video,          \* App state video: 0 for null, or the selected video
    summary,        \* App state summary: isLoading, text (0 for null, or the
                    \* video the text was written about), error
    chatSession,    \* App state chatSession: 0 for null, or the video it is about
    activeTab,      \* App state activeTab: "summary" or "chat"
    isLiveMode,     \* App state isLiveMode
    liveSessionRef, \* liveSessionRef.current: 0 for null, or an index in instances
    instances,      \* per LiveSession constructed by App: its disconnect() calls
    analyses        \* handleAnalyze invocations suspended at an await

\* The fields and the environment of one LiveSession.
liveVars == <<session, inputContext, outputContext, inputSource, processor,
              stream, nextStartTime, currentTime, onOpenPc, pending, history,
              calls, released, micRequests, received>>

\* The capture path of one LiveSession.
captureVars == <<connectRequests, resolved, captured, deferred, sent>>

\* One run of the codec functions.
codecVars == <<stage, floats, bytes, text, back, audioBuffer>>

\* The state of the App component.
appVars == <<mounted, video, summary, chatSession, activeTab, isLiveMode,
             liveSessionRef, instances, analyses>>

vars == <<liveVars, captureVars, codecVars, appVars>>

\* ---------------------------------------------------------------- bounds

\* Inbound messages delivered over one session.
MaxMessages == 3
\* Advances of the output clock over one session.
MaxTicks == 2
\* disconnect() invocations on one session.
MaxDisconnects == 2
\* Frames the capture node delivers over one session.
MaxFrames == 3
\* Samples per captured frame.
FrameSize == 1
\* Samples are the multiples of 1/SampleGrid: 1.0 is SampleGrid.
SampleGrid == 10
\* How far beyond [-1, 1] the samples of a codec run reach, in grid steps.
MaxOver == 2
\* Samples per codec run, bytes per inbound payload, channels per decode.
MaxSamples == 2
MaxBytes == 6
MaxChannels == 2
\* Videos the user can select, handleAnalyze invocations in flight at one
\* time, LiveSession instances the App constructs.
MaxVideos == 2
MaxAnalyses == 2
MaxSessions == 2

\* ------------------------------------------------------ program constants

\* onMessage decodes at 24000 Hz, one channel.
SampleRate == 24000
NumChannels == 1

\* s < 0 ? s * 0x8000 : s * 0x7FFF, and dataInt16[...] / 32768.0
NegativeScale == 32768
PositiveScale == 32767
DecodeDivisor == 32768

\* The 65th character of the base64 alphabet, "=".
Pad == 64

\* ---------------------------------------------------------------- inputs

\* One advance of the output clock: one second.
ClockStep == SampleRate

\* Byte lengths of the inline audio payloads: 0.5 s, 0.3 s and 0.2 s of
\* 16-bit mono PCM, one payload with a dangling byte, and the empty payload.
HalfSecond == 2 * (SampleRate \div 2)
ThreeTenths == 2 * ((3 * SampleRate) \div 10)
TwoTenths == 2 * (SampleRate \div 5)
PayloadLengths == {HalfSecond, ThreeTenths, TwoTenths, TwoTenths + 1, 0}

\* message.serverContent?.modelTurn?.parts?.[0]?.inlineData?.data: absent
\* (hasData = FALSE) or a base64 string that decodes to len bytes.
Messages ==
    {[hasData |-> FALSE, len |-> 0]} \cup
    {[hasData |-> TRUE, len |-> n] : n \in PayloadLengths}

Resources == {"stream", "processor", "inputSource", "inputContext",
              "outputContext", "session"}

\* --------------------------------------------------------------- helpers

Max(a, b) == IF a >= b THEN a ELSE b

\* A test that lets every message through.
TruthyAlways(m) == TRUE

\* decode(): atob of a base64 string gives one byte per binary character.
\* The string is what `if (base64Audio)` tests: empty is falsy.
Truthy(m) == m.hasData /\ m.len > 0

\* A decoder that rounds the sample count down instead of rejecting.
decodeAudioDataFloor(len, numChannels) ==
    [ok |-> TRUE, frames |-> (len \div 2) \div numChannels]

\* decodeAudioData(data, ctx, sampleRate, numChannels) on len bytes:
\* new Int16Array(data.buffer) throws RangeError unless len is a multiple
\* of 2; ctx.createBuffer throws NotSupportedError for a length of 0.
\* The result is the buffer's frame count, or a rejection.
decodeAudioData(len, numChannels) ==
    IF len % 2 # 0
    THEN [ok |-> FALSE, frames |-> 0]
    ELSE IF (len \div 2) \div numChannels = 0
         THEN [ok |-> FALSE, frames |-> 0]
         ELSE [ok |-> TRUE, frames |-> (len \div 2) \div numChannels]

\* ------------------------------------------------------------ the codec
\* A sample is the integer n that stands for n / SampleGrid; a decoded
\* sample is the integer y that stands for y / (SampleGrid * DecodeDivisor),
\* the common denominator of both sides; a base64 character is its index
\* in the alphabet, Pad for "=".

Min(a, b) == IF a <= b THEN a ELSE b

\* The integer part of a / b, towards zero (b > 0).
Truncate(a, b) == IF a >= 0 THEN a \div b ELSE -((-a) \div b)

\* Storing a number in an Int16Array: truncated, then modulo 2^16.
ToInt16(x) ==
    LET m == x % 65536 IN IF m >= 32768 THEN m - 65536 ELSE m

\* An encoder that does not clamp.
ClampNone(n) == n

\* Math.max(-1, Math.min(1, float32Array[i]))
Clamp(n) == Max(-SampleGrid, Min(SampleGrid, n))

\* An encoder with one scale for both signs.
floatToPCM16Symmetric(n) ==
    ToInt16(Truncate(Clamp(n) * PositiveScale, SampleGrid))

\* int16Array[i] = s < 0 ? s * 0x8000 : s * 0x7FFF
floatToPCM16(n) ==
    LET s == Clamp(n)
    IN  IF s < 0
        THEN ToInt16(Truncate(s * NegativeScale, SampleGrid))
        ELSE ToInt16(Truncate(s * PositiveScale, SampleGrid))

\* The two bytes of an Int16Array element as a Uint8Array over the same
\* buffer shows them, on a little-endian agent (every browser platform).
Int16Bytes(x) ==
    LET u == x % 65536 IN <<u % 256, u \div 256>>

\* new Uint8Array(int16Array.buffer)
BytesOfInt16(xs) ==
    [i \in 1..(2 * Len(xs)) |-> Int16Bytes(xs[(i + 1) \div 2])[2 - (i % 2)]]

\* Element k (from 1) of new Int16Array(data.buffer), same agent.
Int16At(b, k) ==
    LET u == b[2 * k - 1] + 256 * b[2 * k]
    IN  IF u >= 32768 THEN u - 65536 ELSE u

ByteAt(b, i) == IF i <= Len(b) THEN b[i] ELSE 0

\* An encoder that fills the last group with "A" in place of "=".
btoaGroupZeroFill(b, k) ==
    LET b1 == ByteAt(b, k)
        b2 == ByteAt(b, k + 1)
        b3 == ByteAt(b, k + 2)
    IN  <<b1 \div 4, (b1 % 4) * 16 + b2 \div 16,
          (b2 % 16) * 4 + b3 \div 64, b3 % 64>>

\* btoa on the three bytes from position k: four characters, padded
\* where the input ends.
btoaGroup(b, k) ==
    LET b1 == ByteAt(b, k)
        b2 == ByteAt(b, k + 1)
        b3 == ByteAt(b, k + 2)
    IN  <<b1 \div 4,
          (b1 % 4) * 16 + b2 \div 16,
          IF k + 1 <= Len(b) THEN (b2 % 16) * 4 + b3 \div 64 ELSE Pad,
          IF k + 2 <= Len(b) THEN b3 % 64 ELSE Pad>>

\* btoa(binary), binary holding one character per byte
\* (String.fromCharCode(bytes[i])).
btoa(b) ==
    [i \in 1..(4 * ((Len(b) + 2) \div 3)) |->
        btoaGroup(b, 3 * ((i - 1) \div 4) + 1)[((i - 1) % 4) + 1]]

Sextet(t, i) == IF t[i] = Pad THEN 0 ELSE t[i]

atobLength(t) ==
    IF t = <<>>
    THEN 0
    ELSE 3 * (Len(t) \div 4)
           - (IF t[Len(t)] = Pad THEN 1 ELSE 0)
           - (IF t[Len(t) - 1] = Pad THEN 1 ELSE 0)

atobGroup(t, k) ==
    LET c1 == Sextet(t, k)
        c2 == Sextet(t, k + 1)
        c3 == Sextet(t, k + 2)
        c4 == Sextet(t, k + 3)
    IN  <<c1 * 4 + c2 \div 16, (c2 % 16) * 16 + c3 \div 4, (c3 % 4) * 64 + c4>>

\* decode(base64): atob, then bytes[i] = binaryString.charCodeAt(i).
decode(t) ==
    [i \in 1..atobLength(t) |->
        atobGroup(t, 4 * ((i - 1) \div 3) + 1)[((i - 1) % 3) + 1]]

\* The bytes base64EncodeAudio hands to btoa: one Int16Array element per
\* sample, seen through a Uint8Array.
pcmBytes(samples) ==
    BytesOfInt16([i \in 1..Len(samples) |-> floatToPCM16(samples[i])])

\* base64EncodeAudio(float32Array)
base64EncodeAudio(samples) == btoa(pcmBytes(samples))

\* dataInt16[...] / 32768.0
pcm16ToFloat(x) == x * SampleGrid

\* The AudioBuffer decodeAudioData returns for the bytes in data, or its
\* rejection. A fractional frameCount is truncated by createBuffer, and
\* the loop's writes beyond the buffer's length are ignored.
decodeAudioBuffer(data, numChannels) ==
    LET result == decodeAudioData(Len(data), numChannels)
    IN  [ok |-> result.ok,
         numberOfChannels |-> numChannels,
         channels |->
            IF result.ok
            THEN [channel \in 1..numChannels |->
                    [i \in 1..result.frames |->
                        pcm16ToFloat(Int16At(data,
                            (i - 1) * numChannels + channel))]]
            ELSE <<>>]

\* Schedulers that ignore the cursor, or the clock.
ScheduleAtClock(clock, cursor) == clock
ScheduleAtCursor(clock, cursor) == cursor

\* Math.max(this.outputContext.currentTime, this.nextStartTime)
ScheduleAt(clock, cursor) == Max(clock, cursor)

\* An assignment (=) in place of the accumulation (+=).
AdvanceAssign(start, duration) == duration

\* this.nextStartTime += audioBuffer.duration
Advance(start, duration) == start + duration

\* A catch block that resets the cursor.
AfterFailureReset(cursor) == 0

\* The catch block of onMessage logs the error and assigns nothing.
AfterFailure(cursor) == cursor

\* A release attempted without the null check.
GuardMissing(field) == TRUE

\* if (this.processor) / if (this.inputSource): the release is attempted
\* only on a field that is set.
Guard(field) == field # "null"

\* AudioContext.close(): rejects with InvalidStateError once the context
\* has been closed (or is being closed); otherwise the context is closed.
CloseRejects(state) == state = "closed"

\* ------------------------------------------------------------------ Init

\* The state the constructor leaves: both contexts created, the connection
\* requested, the fields at their initialisers.
LiveInit ==
    /\ session = "connecting"
    /\ inputContext = "running"
    /\ outputContext = "running"
    /\ inputSource = "null"
    /\ processor = "null"
    /\ stream = "none"
    /\ nextStartTime = 0
    /\ currentTime = 0
    /\ onOpenPc = "idle"
    /\ pending = <<>>
    /\ history = <<>>
    /\ calls = <<>>
    /\ released = [r \in Resources |-> 0]
    /\ micRequests = 0
    /\ received = 0
    /\ connectRequests = 1
    /\ resolved = FALSE
    /\ captured = <<>>
    /\ deferred = <<>>
    /\ sent = <<>>

\* No codec run is under way.
CodecIdle ==
    /\ stage = "idle"
    /\ floats = <<>>
    /\ bytes = <<>>
    /\ text = <<>>
    /\ back = <<>>
    /\ audioBuffer = [ok |-> FALSE, numberOfChannels |-> 0, channels |-> <<>>]

\* useState({ isLoading: false, text: null, error: null })
NoSummary == [isLoading |-> FALSE, text |-> 0, error |-> FALSE]

\* The App component after its first render.
AppInit ==
    /\ mounted = TRUE
    /\ video = 0
    /\ summary = NoSummary
    /\ chatSession = 0
    /\ activeTab = "summary"
    /\ isLiveMode = FALSE
    /\ liveSessionRef = 0
    /\ instances = <<>>
    /\ analyses = <<>>

Init == LiveInit /\ CodecIdle /\ AppInit

\* The sample values of a codec run: [-1, 1] on the grid and MaxOver steps
\* beyond it on either side.
Samples == (-(SampleGrid + MaxOver))..(SampleGrid + MaxOver)

\* The byte values of an inbound payload: the extremes, both halves'
\* lowest values and a printable character.
ByteSamples == {0, 1, 97, 128, 255}

\* The sequences over set S of length lo to hi.
SeqsOf(S, lo, hi) == UNION {[1..n -> S] : n \in lo..hi}

\* A codec run starts from the samples to encode, or from the bytes of
\* a payload the peer will encode.
CodecInit ==
    /\ LiveInit
    /\ AppInit
    /\ \/ /\ stage = "samples"
          /\ floats \in SeqsOf(Samples, 1, MaxSamples)
          /\ bytes = <<>>
       \/ /\ stage = "payload"
          /\ floats = <<>>
          /\ bytes \in SeqsOf(ByteSamples, 0, MaxBytes)
    /\ text = <<>>
    /\ back = <<>>
    /\ audioBuffer = [ok |-> FALSE, numberOfChannels |-> 0, channels |-> <<>>]

\* --------------------------------------------------------------- actions

\* The transport opens the connection and fires onopen: onOpen runs up to
\* its await of navigator.mediaDevices.getUserMedia.
onOpen ==
    /\ session = "connecting"
    /\ onOpenPc = "idle"
    /\ session' = "open"
    /\ onOpenPc' = "getUserMedia"
    /\ micRequests' = micRequests + 1
    /\ UNCHANGED <<inputContext, outputContext, inputSource, processor, stream,
                   nextStartTime, currentTime, pending, history, calls,
                   released, received>>
    /\ UNCHANGED <<captureVars, codecVars, appVars>>

\* getUserMedia resolves with a stream and onOpen builds the capture graph.
\* Creating a node on a context that was closed meanwhile either throws
\* InvalidStateError (caught and logged by onOpen) or succeeds, depending
\* on the browser.
getUserMediaResolved ==
    /\ onOpenPc = "getUserMedia"
    /\ onOpenPc' = "done"
    /\ stream' = "live"
    /\ \E throws \in (IF inputContext = "closed" THEN {TRUE, FALSE} ELSE {FALSE}) :
          IF throws
          THEN UNCHANGED <<inputSource, processor>>
          ELSE inputSource' = "node" /\ processor' = "node"
    /\ UNCHANGED <<session, inputContext, outputContext, nextStartTime,
                   currentTime, pending, history, calls, released,
                   micRequests, received>>
    /\ UNCHANGED <<captureVars, codecVars, appVars>>

\* A catch block that asks for the microphone again.
getUserMediaRetried ==
    /\ onOpenPc = "getUserMedia"
    /\ micRequests' = micRequests + 1
    /\ UNCHANGED <<session, inputContext, outputContext, inputSource, processor,
                   stream, nextStartTime, currentTime, onOpenPc, pending,
                   history, calls, released, received>>
    /\ UNCHANGED <<captureVars, codecVars, appVars>>

\* getUserMedia rejects (permission denied, no device): the catch logs it.
getUserMediaRejected ==
    /\ onOpenPc = "getUserMedia"
    /\ onOpenPc' = "done"
    /\ UNCHANGED <<session, inputContext, outputContext, inputSource, processor,
                   stream, nextStartTime, currentTime, pending, history, calls,
                   released, micRequests, received>>
    /\ UNCHANGED <<captureVars, codecVars, appVars>>

\* The transport delivers message m: onMessage runs up to its await. A
\* message without a truthy inline payload ends there.
onMessage(m) ==
    /\ session = "open"
    /\ received < MaxMessages
    /\ received' = received + 1
    /\ pending' = IF Truthy(m) THEN Append(pending, m.len) ELSE pending
    /\ UNCHANGED <<session, inputContext, outputContext, inputSource, processor,
                   stream, nextStartTime, currentTime, onOpenPc, history, calls,
                   released, micRequests>>
    /\ UNCHANGED <<captureVars, codecVars, appVars>>

\* Suspended invocations that resume in any order.
ResumableAny(waiting) == DOMAIN waiting

\* Suspended invocations that never resume.
ResumableNever(waiting) == {}

\* Which of the suspended onMessage invocations can resume next.
\* decodeAudioData has no await of its own, so its promise is settled
\* when it returns and each continuation is queued as a microtask at the
\* moment of its await: continuations run in the order of their awaits.
Resumable(waiting) == IF waiting = <<>> THEN {} ELSE {1}

\* The sequence without its element i.
Remove(seq, i) ==
    [j \in 1..(Len(seq) - 1) |-> IF j < i THEN seq[j] ELSE seq[j + 1]]

\* A suspended onMessage resumes after its await: either the
\* decode rejected and the catch logs it, or the unit is scheduled.
\* createBuffer and createBufferSource do not depend on the state of the
\* context, and a closed context's currentTime no longer advances. A
\* failed invocation never reads the clock: its record has at = 0.
onMessageResume ==
    /\ \E i \in Resumable(pending) :
       LET data == pending[i]
           buffer == decodeAudioData(data, NumChannels)
           startTime == ScheduleAt(currentTime, nextStartTime)
       IN /\ pending' = Remove(pending, i)
          /\ IF buffer.ok
            THEN /\ nextStartTime' = Advance(startTime, buffer.frames)
                 /\ history' = Append(history,
                        [ok |-> TRUE, len |-> data, at |-> currentTime,
                         cursor |-> nextStartTime, start |-> startTime,
                         dur |-> buffer.frames,
                         next |-> Advance(startTime, buffer.frames)])
            ELSE /\ nextStartTime' = AfterFailure(nextStartTime)
                 /\ history' = Append(history,
                        [ok |-> FALSE, len |-> data, at |-> 0,
                         cursor |-> nextStartTime, start |-> 0, dur |-> 0,
                         next |-> AfterFailure(nextStartTime)])
    /\ UNCHANGED <<session, inputContext, outputContext, inputSource, processor,
                   stream, currentTime, onOpenPc, calls, released, micRequests,
                   received>>
    /\ UNCHANGED <<captureVars, codecVars, appVars>>

\* The lifecycle phase of the session as the specification names it.
Phase ==
    IF calls # <<>>
    THEN IF \E i \in DOMAIN calls : calls[i] \in {"closingInput", "closingOutput"}
         THEN "Closing"
         ELSE "Closed"
    ELSE IF session = "connecting" THEN "Connecting" ELSE "Open"

\* disconnect() is called: it runs up to its first await. Calling
\* .disconnect() on a null field would throw TypeError and reject the call
\* before anything is released.
disconnect ==
    /\ Len(calls) < MaxDisconnects
    /\ IF \/ Guard(processor) /\ processor = "null"
          \/ Guard(inputSource) /\ inputSource = "null"
       THEN /\ calls' = Append(calls, "rejected")
            /\ UNCHANGED <<inputContext, inputSource, processor, released>>
       ELSE /\ processor' = "null"
            /\ inputSource' = "null"
            /\ released' = [released EXCEPT
                  !["processor"] = @ + (IF Guard(processor) THEN 1 ELSE 0),
                  !["inputSource"] = @ + (IF Guard(inputSource) THEN 1 ELSE 0),
                  !["inputContext"] = @ + 1]
            /\ IF CloseRejects(inputContext)
               THEN /\ calls' = Append(calls, "rejected")
                    /\ UNCHANGED inputContext
               ELSE /\ calls' = Append(calls, "closingInput")
                    /\ inputContext' = "closed"
    /\ UNCHANGED <<session, outputContext, stream, nextStartTime, currentTime,
                   onOpenPc, pending, history, micRequests, received>>
    /\ UNCHANGED <<captureVars, codecVars, appVars>>

\* inputContext.close() has resolved: disconnect call i goes on to
\* outputContext.close() and suspends again.
disconnectCloseOutput(i) ==
    /\ calls[i] = "closingInput"
    /\ released' = [released EXCEPT !["outputContext"] = @ + 1]
    /\ IF CloseRejects(outputContext)
       THEN /\ calls' = [calls EXCEPT ![i] = "rejected"]
            /\ UNCHANGED outputContext
       ELSE /\ calls' = [calls EXCEPT ![i] = "closingOutput"]
            /\ outputContext' = "closed"
    /\ UNCHANGED <<session, inputContext, inputSource, processor, stream,
                   nextStartTime, currentTime, onOpenPc, pending, history,
                   micRequests, received>>
    /\ UNCHANGED <<captureVars, codecVars, appVars>>

\* outputContext.close() has resolved: disconnect call i returns.
disconnectReturn(i) ==
    /\ calls[i] = "closingOutput"
    /\ calls' = [calls EXCEPT ![i] = "done"]
    /\ UNCHANGED <<session, inputContext, outputContext, inputSource, processor,
                   stream, nextStartTime, currentTime, onOpenPc, pending,
                   history, released, micRequests, received>>
    /\ UNCHANGED <<captureVars, codecVars, appVars>>

\* The transport reports an error: the onerror callback logs it.
onerror ==
    /\ session \in {"connecting", "open"}
    /\ session' = "error"
    /\ UNCHANGED <<inputContext, outputContext, inputSource, processor, stream,
                   nextStartTime, currentTime, onOpenPc, pending, history,
                   calls, released, micRequests, received>>
    /\ UNCHANGED <<captureVars, codecVars, appVars>>

\* The transport closes the connection: the onclose callback logs it.
onclose ==
    /\ session \in {"connecting", "open", "error"}
    /\ session' = "closed"
    /\ UNCHANGED <<inputContext, outputContext, inputSource, processor, stream,
                   nextStartTime, currentTime, onOpenPc, pending, history,
                   calls, released, micRequests, received>>
    /\ UNCHANGED <<captureVars, codecVars, appVars>>

\* Callbacks that run last-registered first.
FlushReversed(waiting) ==
    [i \in 1..Len(waiting) |-> waiting[Len(waiting) + 1 - i]]

\* The then-callbacks registered on a promise run in the order of their
\* registration.
Flush(waiting) == waiting

\* After onopen the promise this.session resolves: the then-callbacks
\* that wait for it run and send.
sessionResolved ==
    /\ onOpenPc # "idle"
    /\ ~resolved
    /\ resolved' = TRUE
    /\ sent' = sent \o Flush(deferred)
    /\ deferred' = <<>>
    /\ UNCHANGED <<liveVars, connectRequests, captured, codecVars, appVars>>

\* The frames the capture node can deliver.
Frames ==
    {f \in [1..FrameSize -> {-SampleGrid, SampleGrid \div 2}] : TRUE}

\* A handler that sends on the connection without waiting for the promise.
onaudioprocessDirect(f) ==
    /\ processor = "node"
    /\ inputContext = "running"
    /\ Len(captured) < MaxFrames
    /\ captured' = Append(captured, f)
    /\ sent' = Append(sent, base64EncodeAudio(f))
    /\ UNCHANGED <<liveVars, connectRequests, resolved, deferred, codecVars, appVars>>

\* The processor node delivers frame f: onaudioprocess encodes it and
\* registers the send on this.session; on a resolved promise the callback
\* runs before the next event.
onaudioprocess(f) ==
    /\ processor = "node"
    /\ inputContext = "running"
    /\ Len(captured) < MaxFrames
    /\ captured' = Append(captured, f)
    /\ IF resolved
       THEN sent' = Append(sent, base64EncodeAudio(f)) /\ UNCHANGED deferred
       ELSE deferred' = Append(deferred, base64EncodeAudio(f)) /\ UNCHANGED sent
    /\ UNCHANGED <<liveVars, connectRequests, resolved, codecVars, appVars>>

\* base64EncodeAudio on the samples of the run.
EncodeAudio ==
    /\ stage = "samples"
    /\ bytes' = pcmBytes(floats)
    /\ text' = base64EncodeAudio(floats)
    /\ stage' = "encoded"
    /\ UNCHANGED <<liveVars, captureVars, floats, back, audioBuffer, appVars>>

\* The peer encodes its payload as the capture side does: one character
\* per byte, then btoa.
EncodeBytes ==
    /\ stage = "payload"
    /\ text' = btoa(bytes)
    /\ stage' = "encoded"
    /\ UNCHANGED <<liveVars, captureVars, floats, bytes, back, audioBuffer, appVars>>

\* decode(base64Audio)
DecodeText ==
    /\ stage = "encoded"
    /\ back' = decode(text)
    /\ stage' = "decoded"
    /\ UNCHANGED <<liveVars, captureVars, floats, bytes, text, audioBuffer, appVars>>

\* decodeAudioData(bytes, ctx, sampleRate, numChannels)
DecodeAudio(numChannels) ==
    /\ stage = "decoded"
    /\ audioBuffer' = decodeAudioBuffer(back, numChannels)
    /\ stage' = "done"
    /\ UNCHANGED <<liveVars, captureVars, floats, bytes, text, back, appVars>>

\* ------------------------------------------------------------- the App
\* Handlers run to completion; isLiveMode is set only inside event
\* handlers and the unmount cleanup, whose updates React renders before
\* the next event, so a handler reads the current value. What a handler
\* does to messages, inputMessage and the chat audio is left out.

\* The chat tab is rendered: the live toggle, the End button and the
\* message input are on it.
ChatVisible == video # 0 /\ summary.text # 0 /\ activeTab = "chat"

\* A stopLiveMode that keeps the reference.
stopLiveModeKeepRef ==
    /\ isLiveMode' = FALSE
    /\ IF liveSessionRef # 0
       THEN instances' = [instances EXCEPT ![liveSessionRef] = @ + 1]
       ELSE UNCHANGED instances
    /\ UNCHANGED liveSessionRef

\* stopLiveMode(): disconnect() is called, not awaited, and the reference
\* is dropped.
stopLiveMode ==
    /\ isLiveMode' = FALSE
    /\ IF liveSessionRef # 0
       THEN /\ instances' = [instances EXCEPT ![liveSessionRef] = @ + 1]
            /\ liveSessionRef' = 0
       ELSE UNCHANGED <<liveSessionRef, instances>>

\* startLiveMode(): the LiveSession constructor either returns a session
\* or throws (no AudioContext, no API key).
startLiveMode ==
    IF summary.text = 0
    THEN UNCHANGED <<activeTab, isLiveMode, liveSessionRef, instances>>
    ELSE /\ activeTab' = "chat"
         /\ \E throws \in BOOLEAN :
               IF throws
               THEN /\ isLiveMode' = FALSE
                    /\ UNCHANGED <<liveSessionRef, instances>>
               ELSE /\ isLiveMode' = TRUE
                    /\ instances' = Append(instances, 0)
                    /\ liveSessionRef' = Len(instances) + 1

\* The user picks video v on the landing view, which is rendered while
\* no video is selected; VideoInput is disabled while summary.isLoading.
handleVideoSelected(v) ==
    /\ mounted
    /\ video = 0
    /\ ~summary.isLoading
    /\ video' = v
    /\ summary' = NoSummary
    /\ chatSession' = 0
    /\ isLiveMode' = FALSE
    /\ activeTab' = "summary"
    /\ UNCHANGED <<mounted, liveSessionRef, instances, analyses>>
    /\ UNCHANGED <<liveVars, captureVars, codecVars>>

\* The Analyze button (disabled while summary.isLoading): handleAnalyze
\* runs up to its await of fileToBase64. The invocation keeps the video
\* of the render it was created in.
handleAnalyze ==
    /\ mounted
    /\ video # 0
    /\ ~summary.isLoading
    /\ Len(analyses) < MaxAnalyses
    /\ summary' = [isLoading |-> TRUE, text |-> 0, error |-> FALSE]
    /\ analyses' = Append(analyses, [video |-> video, pc |-> "fileToBase64"])
    /\ UNCHANGED <<mounted, video, chatSession, activeTab, isLiveMode,
                   liveSessionRef, instances>>
    /\ UNCHANGED <<liveVars, captureVars, codecVars>>

\* The catch of handleAnalyze.
AnalysisFailed == [isLoading |-> FALSE, text |-> 0, error |-> TRUE]

\* fileToBase64 settles for invocation i: on success analyzeVideo is
\* called and awaited.
fileToBase64Settled(i, ok) ==
    /\ mounted
    /\ analyses[i].pc = "fileToBase64"
    /\ IF ok
       THEN /\ analyses' = [analyses EXCEPT ![i].pc = "analyzeVideo"]
            /\ UNCHANGED summary
       ELSE /\ analyses' = Remove(analyses, i)
            /\ summary' = AnalysisFailed
    /\ UNCHANGED <<mounted, video, chatSession, activeTab, isLiveMode,
                   liveSessionRef, instances>>
    /\ UNCHANGED <<liveVars, captureVars, codecVars>>

\* analyzeVideo settles for invocation i: on success the text is set as
\* the summary, the summary tab is shown, and createChatSession is called
\* and awaited.
analyzeVideoSettled(i, ok) ==
    /\ mounted
    /\ analyses[i].pc = "analyzeVideo"
    /\ IF ok
       THEN /\ summary' = [isLoading |-> FALSE, text |-> analyses[i].video,
                           error |-> FALSE]
            /\ activeTab' = "summary"
            /\ analyses' = [analyses EXCEPT ![i].pc = "createChatSession"]
       ELSE /\ summary' = AnalysisFailed
            /\ analyses' = Remove(analyses, i)
            /\ UNCHANGED activeTab
    /\ UNCHANGED <<mounted, video, chatSession, isLiveMode, liveSessionRef,
                   instances>>
    /\ UNCHANGED <<liveVars, captureVars, codecVars>>

\* createChatSession settles for invocation i: on success the session is
\* set as chatSession; a failure is only logged.
createChatSessionSettled(i, ok) ==
    /\ mounted
    /\ analyses[i].pc = "createChatSession"
    /\ chatSession' = IF ok THEN analyses[i].video ELSE chatSession
    /\ analyses' = Remove(analyses, i)
    /\ UNCHANGED <<mounted, video, summary, activeTab, isLiveMode,
                   liveSessionRef, instances>>
    /\ UNCHANGED <<liveVars, captureVars, codecVars>>

\* A handleHome that only clears the flag, as handleVideoSelected does.
handleHomeKeepSession ==
    /\ mounted
    /\ video # 0
    /\ video' = 0
    /\ summary' = NoSummary
    /\ chatSession' = 0
    /\ isLiveMode' = FALSE
    /\ UNCHANGED <<mounted, activeTab, liveSessionRef, instances, analyses>>
    /\ UNCHANGED <<liveVars, captureVars, codecVars>>

\* The Home button, rendered while a video is selected.
handleHome ==
    /\ mounted
    /\ video # 0
    /\ video' = 0
    /\ summary' = NoSummary
    /\ chatSession' = 0
    /\ stopLiveMode
    /\ UNCHANGED <<mounted, activeTab, analyses>>
    /\ UNCHANGED <<liveVars, captureVars, codecVars>>

\* The tab buttons, disabled while there is no summary text.
setActiveTab(tab) ==
    /\ mounted
    /\ video # 0
    /\ summary.text # 0
    /\ activeTab' = tab
    /\ UNCHANGED <<mounted, video, summary, chatSession, isLiveMode,
                   liveSessionRef, instances, analyses>>
    /\ UNCHANGED <<liveVars, captureVars, codecVars>>

\* The live button on the chat tab.
toggleLiveMode ==
    /\ mounted
    /\ ChatVisible
    /\ IF isLiveMode
       THEN stopLiveMode /\ UNCHANGED activeTab
       ELSE Len(instances) < MaxSessions /\ startLiveMode
    /\ UNCHANGED <<mounted, video, summary, chatSession, analyses>>
    /\ UNCHANGED <<liveVars, captureVars, codecVars>>

\* The End button of the live overlay: onClick={stopLiveMode}.
endLiveMode ==
    /\ mounted
    /\ ChatVisible
    /\ isLiveMode
    /\ stopLiveMode
    /\ UNCHANGED <<mounted, video, summary, chatSession, activeTab, analyses>>
    /\ UNCHANGED <<liveVars, captureVars, codecVars>>

\* The user sends a non-empty message: handleSendMessage returns at once
\* without a chat session, and otherwise leaves live mode first.
handleSendMessage ==
    /\ mounted
    /\ ChatVisible
    /\ IF chatSession # 0 /\ isLiveMode
       THEN stopLiveMode
       ELSE UNCHANGED <<isLiveMode, liveSessionRef, instances>>
    /\ UNCHANGED <<mounted, video, summary, chatSession, activeTab, analyses>>
    /\ UNCHANGED <<liveVars, captureVars, codecVars>>

\* The component unmounts: the effect cleanup calls stopLiveMode.
unmount ==
    /\ mounted
    /\ mounted' = FALSE
    /\ stopLiveMode
    /\ UNCHANGED <<video, summary, chatSession, activeTab, analyses>>
    /\ UNCHANGED <<liveVars, captureVars, codecVars>>

\* The output clock advances while the output context runs.
Tick ==
    /\ outputContext = "running"
    /\ currentTime + ClockStep <= MaxTicks * ClockStep
    /\ currentTime' = currentTime + ClockStep
    /\ UNCHANGED <<session, inputContext, outputContext, inputSource, processor,
                   stream, nextStartTime, onOpenPc, pending, history, calls,
                   released, micRequests, received>>
    /\ UNCHANGED <<captureVars, codecVars, appVars>>

Next ==
    \/ onOpen
    \/ getUserMediaResolved
    \/ getUserMediaRejected
    \/ \E m \in Messages : onMessage(m)
    \/ onMessageResume
    \/ disconnect
    \/ \E i \in DOMAIN calls : disconnectCloseOutput(i)
    \/ \E i \in DOMAIN calls : disconnectReturn(i)
    \/ Tick

Spec == Init /\ [][Next]_vars

\* The session while nobody disconnects it: it stays Open once opened.
PlaybackNext ==
    \/ onOpen
    \/ getUserMediaResolved
    \/ getUserMediaRejected
    \/ \E m \in Messages : onMessage(m)
    \/ onMessageResume
    \/ Tick

\* A suspended onMessage is eventually resumed: its continuation is a
\* queued microtask, and the event loop runs the microtasks that are
\* queued.
PlaybackSpec == Init /\ [][PlaybackNext]_vars /\ WF_vars(onMessageResume)

\* The lifecycle of the session with the transport's error and close
\* events and the capture path, without inbound messages.
SessionNext ==
    \/ onOpen
    \/ getUserMediaResolved
    \/ getUserMediaRejected
    \/ disconnect
    \/ \E i \in DOMAIN calls : disconnectCloseOutput(i)
    \/ \E i \in DOMAIN calls : disconnectReturn(i)
    \/ onerror
    \/ onclose
    \/ sessionResolved
    \/ \E f \in Frames : onaudioprocess(f)

SessionSpec == Init /\ [][SessionNext]_vars

\* The session at the moment onOpen has suspended at its await of
\* getUserMedia, nothing else having happened since construction.
AcquiringInit ==
    /\ session = "open"
    /\ onOpenPc = "getUserMedia"
    /\ micRequests = 1
    /\ inputContext = "running"
    /\ outputContext = "running"
    /\ inputSource = "null"
    /\ processor = "null"
    /\ stream = "none"
    /\ nextStartTime = 0
    /\ currentTime = 0
    /\ pending = <<>>
    /\ history = <<>>
    /\ calls = <<>>
    /\ released = [r \in Resources |-> 0]
    /\ received = 0
    /\ connectRequests = 1
    /\ resolved = FALSE
    /\ captured = <<>>
    /\ deferred = <<>>
    /\ sent = <<>>
    /\ CodecIdle
    /\ AppInit

\* What can happen from there on: every disconnect() comes during the
\* await or after it.
AcquiringNext ==
    \/ getUserMediaResolved
    \/ getUserMediaRejected
    \/ disconnect
    \/ \E i \in DOMAIN calls : disconnectCloseOutput(i)
    \/ \E i \in DOMAIN calls : disconnectReturn(i)
    \/ onerror
    \/ onclose
    \/ sessionResolved
    \/ \E f \in Frames : onaudioprocess(f)

AcquiringSpec == AcquiringInit /\ [][AcquiringNext]_vars

\* One run of the codec: encode, decode the text, decode the audio.
CodecNext ==
    \/ EncodeAudio
    \/ EncodeBytes
    \/ DecodeText
    \/ \E numChannels \in 1..MaxChannels : DecodeAudio(numChannels)

CodecSpec == CodecInit /\ [][CodecNext]_vars

\* The App component under the user's actions and the settling of the
\* remote calls of handleAnalyze.
AppNext ==
    \/ \E v \in 1..MaxVideos : handleVideoSelected(v)
    \/ handleAnalyze
    \/ \E i \in DOMAIN analyses, ok \in BOOLEAN : fileToBase64Settled(i, ok)
    \/ \E i \in DOMAIN analyses, ok \in BOOLEAN : analyzeVideoSettled(i, ok)
    \/ \E i \in DOMAIN analyses, ok \in BOOLEAN : createChatSessionSettled(i, ok)
    \/ handleHome
    \/ \E tab \in {"summary", "chat"} : setActiveTab(tab)
    \/ toggleLiveMode
    \/ endLiveMode
    \/ handleSendMessage
    \/ unmount

AppSpec == Init /\ [][AppNext]_vars

\* ---------------------------------------------------------------- claims

\* n tenths of a second, in sample periods.
Tenths(n) == (n * SampleRate) \div 10

\* The records of the units that were scheduled (source.start was called).
Units == {i \in DOMAIN history : history[i].ok}

\* The unit scheduled last before unit j, or 0 when j is the first one.
Previous(j) ==
    IF \E i \in Units : i < j
    THEN CHOOSE i \in Units : i < j /\ \A k \in Units : k < j => k <= i
    ELSE 0

\* The spec's words for a payload that cannot be decoded at one channel of
\* 16-bit samples: an odd byte length, or no whole frame.
Malformed(len) == len % 2 = 1 \/ len < 2

\* C1: for every two scheduled units, the later one starts no earlier than
\* the earlier one ends: start(u2) >= start(u1) + duration(u1).
NonOverlap ==
    \A i, j \in Units :
        i < j => history[j].start >= history[i].start + history[i].dur

\* A unit was scheduled while an earlier unit was still to finish.
NonOverlapWitness ==
    \E i, j \in Units :
        /\ i < j
        /\ history[j].at < history[i].start + history[i].dur
        /\ history[j].dur > 0

\* C2: a unit handled when the output clock is past nextStartTime starts at
\* the clock reading and leaves nextStartTime at clock + duration; units of
\* 0.5 s, 0.3 s and 0.2 s handled at clock 0 s, 2 s and 2 s start at 0 s,
\* 2.0 s and 2.3 s.
CatchUp ==
    /\ \A i \in Units :
          history[i].at > history[i].cursor =>
              /\ history[i].start = history[i].at
              /\ history[i].next = history[i].at + history[i].dur
    /\ ( /\ Len(history) >= 3
         /\ \A i \in 1..3 : history[i].ok
         /\ <<history[1].dur, history[2].dur, history[3].dur>>
               = <<Tenths(5), Tenths(3), Tenths(2)>>
         /\ <<history[1].at, history[2].at, history[3].at>>
               = <<0, Tenths(20), Tenths(20)>> )
       => <<history[1].start, history[2].start, history[3].start>>
               = <<0, Tenths(20), Tenths(23)>>

\* The end-to-end scenario has run, its second unit catching up by 1.5 s.
CatchUpWitness ==
    /\ Len(history) = 3
    /\ <<history[1].dur, history[2].dur, history[3].dur>>
          = <<Tenths(5), Tenths(3), Tenths(2)>>
    /\ <<history[1].at, history[2].at, history[3].at>>
          = <<0, Tenths(20), Tenths(20)>>
    /\ history[2].cursor = Tenths(5)
    /\ history[2].start = Tenths(20)
    /\ nextStartTime = Tenths(25)

\* C3: a unit handled when the output clock is not past nextStartTime
\* starts exactly where the previously scheduled unit ends.
Gapless ==
    \A j \in Units :
        (Previous(j) # 0 /\ history[j].at <= history[j].cursor) =>
            history[j].start
                = history[Previous(j)].start + history[Previous(j)].dur

\* Three units back to back, the second one starting after time 0, with a
\* dropped payload in between.
GaplessWitness ==
    \E j \in Units :
        /\ Previous(j) # 0
        /\ Previous(j) < j - 1
        /\ history[j].at < history[j].cursor
        /\ history[Previous(j)].start > 0
        /\ history[j].start = history[Previous(j)].start + history[Previous(j)].dur

\* C4: nextStartTime starts at 0 and no step of the session lowers it.
CursorMonotone ==
    /\ nextStartTime = 0
    /\ [][nextStartTime' >= nextStartTime]_vars

\* The cursor has advanced, a payload was dropped, onOpen has finished and
\* a disconnect has returned.
CursorMonotoneWitness ==
    /\ nextStartTime > 0
    /\ \E i \in DOMAIN history : ~history[i].ok
    /\ onOpenPc = "done"
    /\ received = MaxMessages
    /\ \E i \in DOMAIN calls : calls[i] = "done"

\* C5: a malformed payload is dropped with nextStartTime, the contexts and
\* the session untouched (an empty payload already on receipt), and a
\* well-formed payload handled by an open session is scheduled, after
\* every unit scheduled before it.
DecodeIsolation ==
    [][ /\ Len(history') = Len(history) + 1 =>
             LET e == history'[Len(history')]
             IN  IF Malformed(e.len)
                 THEN /\ ~e.ok
                      /\ nextStartTime' = nextStartTime
                      /\ UNCHANGED <<session, inputContext, outputContext,
                                     inputSource, processor, calls>>
                 ELSE Phase = "Open" =>
                         /\ e.ok
                         /\ \A i \in Units :
                               e.start >= history[i].start + history[i].dur
        /\ received' = received + 1 =>
             /\ \A n \in DOMAIN pending' : ~(pending'[n] = 0)
             /\ UNCHANGED <<nextStartTime, history, session, inputContext,
                            outputContext, inputSource, processor, calls>>
      ]_vars

\* A unit, then a dropped malformed payload, then a unit scheduled behind
\* the first one, in a session that is still open.
DecodeIsolationWitness ==
    /\ Len(history) = 3
    /\ history[1].ok /\ ~history[2].ok /\ history[3].ok
    /\ Malformed(history[2].len)
    /\ history[3].cursor = history[1].next
    /\ history[3].at < history[3].cursor
    /\ Phase = "Open"

\* C6: a second disconnect() on a session that was Open, called after the
\* first one has returned, does not reject and changes nothing.
IdempotentTeardown ==
    [][ ( /\ Len(calls) = 1
          /\ calls[1] = "done"
          /\ released["processor"] = 1
          /\ Len(calls') = 2 )
        => /\ calls'[2] # "rejected"
           /\ UNCHANGED <<session, inputContext, outputContext, inputSource,
                          processor, stream, nextStartTime>>
      ]_vars

\* C7: once the first disconnect() on an Open session with a running
\* capture graph has returned, the microphone stream, the processor node,
\* both audio contexts and the connection are released.
FullRelease ==
    ( /\ Len(calls) = 1
      /\ calls[1] = "done"
      /\ released["processor"] = 1 )
    => /\ stream # "live"
       /\ processor = "null"
       /\ inputSource = "null"
       /\ inputContext = "closed"
       /\ outputContext = "closed"
       /\ released["session"] >= 1

\* C8: over any sequence of disconnect() calls, the release operation of
\* each resource is invoked at most once.
ReleasedAtMostOnce ==
    \A r \in Resources : released[r] <= 1

\* C9: a disconnect() called while Connecting, or while Open with no
\* microphone stream acquired, closes the input context without touching a
\* resource that was never acquired; the first disconnect() never rejects,
\* and once it has returned both audio contexts are closed.
SafeFromAnyState ==
    /\ [][ ( /\ Len(calls') = Len(calls) + 1
             /\ \/ Phase = "Connecting"
                \/ Phase = "Open" /\ stream = "none" )
           => /\ calls' = <<"closingInput">>
              /\ inputContext' = "closed"
              /\ released' = [released EXCEPT !["inputContext"] = 1]
              /\ UNCHANGED <<inputSource, processor, stream>>
         ]_vars
    /\ [](calls # <<>> => calls[1] # "rejected")
    /\ []((calls # <<>> /\ calls[1] = "done") =>
             (inputContext = "closed" /\ outputContext = "closed"))

\* A disconnect() called while Connecting has returned, with the connection
\* still not open and nothing released but the two contexts.
SafeFromAnyStateWitness ==
    /\ calls = <<"done">>
    /\ session = "connecting"
    /\ inputContext = "closed"
    /\ outputContext = "closed"
    /\ released["processor"] = 0
    /\ released["inputSource"] = 0

\* C10: when on-open fires after disconnect() was called while Connecting,
\* the attempt is cancelled: the microphone is not requested and the
\* connection is closed.
CancelWhileConnecting ==
    [][ (calls # <<>> /\ session = "connecting" /\ session' = "open")
        => /\ micRequests' = micRequests
           /\ onOpenPc' # "getUserMedia"
           /\ released'["session"] >= 1
      ]_vars

\* C11: once the transport has reported an error or closed the connection,
\* the session is torn down: teardown has begun, capture is stopped and
\* the input context is closed.
TransportFailureIsFatal ==
    session \in {"error", "closed"}
        => /\ Phase \in {"Closing", "Closed"}
           /\ processor = "null"
           /\ inputContext = "closed"

\* C12: once microphone acquisition in on-open has failed, the session is
\* torn down: teardown has begun and the input context is closed.
MicrophoneFailureIsFatal ==
    (onOpenPc = "done" /\ stream = "none")
        => /\ Phase \in {"Closing", "Closed"}
           /\ inputContext = "closed"

\* C13: whatever fails, the connection is requested exactly once and the
\* microphone at most once, and only the on-open callback requests it.
NoInternalRetry ==
    /\ connectRequests = 1
    /\ micRequests <= 1
    /\ micRequests = (IF onOpenPc = "idle" THEN 0 ELSE 1)

\* The microphone was refused and the transport failed, and neither was
\* asked for again.
NoInternalRetryWitness ==
    /\ onOpenPc = "done"
    /\ stream = "none"
    /\ session \in {"error", "closed"}
    /\ micRequests = 1
    /\ connectRequests = 1

\* C14: once disconnect() has been called, no step schedules a playback
\* unit or moves nextStartTime.
EffectiveOnlyWhileOpen ==
    [][ calls # <<>>
        => /\ nextStartTime' = nextStartTime
           /\ { i \in DOMAIN history' : history'[i].ok } = Units
      ]_vars

\* C16: the suspended invocations wait in the order their messages were
\* received, and the one that resumes, schedules or fails is always the
\* one received first among them.
ReceiptOrder ==
    [][ /\ Len(pending') > Len(pending)
            => \E m \in Messages : pending' = Append(pending, m.len)
        /\ Len(pending') < Len(pending)
            => /\ pending' = Tail(pending)
               /\ history' = Append(history, history'[Len(history')])
               /\ history'[Len(history')].len = Head(pending)
               /\ history'[Len(history')].cursor = nextStartTime
               /\ nextStartTime' = history'[Len(history')].next
      ]_vars

\* An invocation has resumed while two more, with different payloads and
\* one of them malformed, are still suspended.
ReceiptOrderWitness ==
    /\ Len(history) >= 1
    /\ Len(pending) >= 2
    /\ pending[1] # pending[2]
    /\ \E i \in DOMAIN pending : Malformed(pending[i])

\* The encodings of the captured frames, in capture order.
Encodings == [i \in 1..Len(captured) |-> base64EncodeAudio(captured[i])]

\* C15: the sends issued so far, followed by the sends still waiting for
\* the connection promise, are the encodings of the captured frames, one
\* per frame and in capture order; once the promise has resolved no send
\* waits.
OneSendPerFrameInOrder ==
    /\ sent \o deferred = Encodings
    /\ resolved => deferred = <<>>

\* Frames with different encodings were captured before the connection
\* promise resolved, and their sends wait for it.
OneSendPerFrameInOrderWitness ==
    /\ ~resolved
    /\ Len(captured) >= 2
    /\ Len(deferred) = Len(captured)
    /\ deferred[1] # deferred[2]

\* A run that encoded samples and decoded them again at one channel.
RoundTripRun ==
    /\ stage = "done"
    /\ floats # <<>>
    /\ audioBuffer.ok
    /\ audioBuffer.numberOfChannels = NumChannels
    /\ Len(audioBuffer.channels[1]) = Len(floats)

InRange(n) == -SampleGrid <= n /\ n <= SampleGrid

\* The distance between sample i and what it comes back as, in units of
\* 1 / (SampleGrid * DecodeDivisor): 1/32768 is SampleGrid of them.
SampleError(i) ==
    LET d == audioBuffer.channels[1][i] - floats[i] * DecodeDivisor
    IN  IF d >= 0 THEN d ELSE -d

\* C17: every sample in [-1, 1] comes back from encoding and decoding
\* within 1/32768 of itself.
CodecRoundTrip ==
    RoundTripRun =>
        \A i \in DOMAIN floats :
            InRange(floats[i]) => SampleError(i) <= SampleGrid

\* C17, as the code has it: every sample in [-1, 1] comes back less than
\* 2/32768 from itself, and a sample that is not positive less than
\* 1/32768 from itself.
CodecRoundTripAmended ==
    RoundTripRun =>
        \A i \in DOMAIN floats :
            InRange(floats[i]) =>
                /\ SampleError(i) < 2 * SampleGrid
                /\ floats[i] <= 0 => SampleError(i) < SampleGrid

\* A positive sample below 1 came back more than 1/32768 from itself.
CodecRoundTripWitness ==
    /\ RoundTripRun
    /\ \E i \in DOMAIN floats :
          /\ 0 < floats[i]
          /\ floats[i] < SampleGrid
          /\ SampleError(i) > SampleGrid

\* C18: the encoder never fails and gives each sample exactly two bytes,
\* which read low byte first are the 16-bit integer the sample determines:
\* 32767 from 1 upwards, -32768 from -1 downwards, and in between the
\* sample times 32767 (times 32768 when negative) without its fraction.
EncoderContract ==
    stage \in {"encoded", "decoded", "done"} /\ floats # <<>> =>
        /\ Len(bytes) = 2 * Len(floats)
        /\ \A k \in DOMAIN bytes : bytes[k] \in 0..255
        /\ \A i \in DOMAIN floats :
              LET n == floats[i]
                  u == bytes[2 * i - 1] + 256 * bytes[2 * i]
                  v == IF u >= 32768 THEN u - 65536 ELSE u
              IN  /\ v \in (-32768)..32767
                  /\ n >= SampleGrid => v = 32767
                  /\ n <= -SampleGrid => v = -32768
                  /\ (-SampleGrid < n /\ n < 0) =>
                        /\ v <= 0
                        /\ v * SampleGrid >= n * NegativeScale
                        /\ (v - 1) * SampleGrid < n * NegativeScale
                  /\ (0 <= n /\ n < SampleGrid) =>
                        /\ v >= 0
                        /\ v * SampleGrid <= n * PositiveScale
                        /\ (v + 1) * SampleGrid > n * PositiveScale

\* A sample above 1 and a sample below -1 were encoded as 32767 and
\* -32768, low byte first.
EncoderContractWitness ==
    /\ stage = "encoded"
    /\ Len(floats) >= 2
    /\ floats[1] > SampleGrid
    /\ floats[2] < -SampleGrid
    /\ SubSeq(bytes, 1, 4) = <<255, 127, 0, 128>>

\* C19: the bytes that come back from decode() are the bytes that were
\* encoded, as many and the same.
TransportRoundTrip ==
    stage \in {"decoded", "done"} =>
        /\ Len(back) = Len(bytes)
        /\ back = bytes

\* A payload that ends in a group of one byte, and so in "==", came back.
TransportRoundTripWitness ==
    /\ stage = "decoded"
    /\ Len(bytes) = 4
    /\ bytes[1] = 255 /\ bytes[4] = 128
    /\ text[Len(text)] = Pad /\ text[Len(text) - 1] = Pad
    /\ back = bytes

\* C20: decodeAudioData rejects when the byte length is not a whole
\* multiple of 2 * numChannels or holds no frame, and otherwise returns
\* length / (2 * numChannels) frames per channel, channel c holding the
\* samples c, c + numChannels, ... each divided by 32768.
DecodeContract ==
    stage = "done" =>
        LET numChannels == audioBuffer.numberOfChannels
            stride == 2 * numChannels
            frameCount == Len(back) \div stride
        IN  IF Len(back) % stride # 0 \/ frameCount = 0
            THEN ~audioBuffer.ok
            ELSE /\ audioBuffer.ok
                 /\ Len(audioBuffer.channels) = numChannels
                 /\ \A c \in 1..numChannels :
                       /\ Len(audioBuffer.channels[c]) = frameCount
                       /\ \A i \in 1..frameCount :
                             audioBuffer.channels[c][i]
                               = pcm16ToFloat(Int16At(back, (i - 1) * numChannels + c))

\* C21: once disconnect() has been called on a session, its connection
\* does not open, it requests and acquires no microphone, builds no
\* capture graph, captures no frame and requests no new connection.
ClosedIsTerminal ==
    [][ calls # <<>>
        => /\ session' = "open" => session = "open"
           /\ connectRequests' = connectRequests
           /\ micRequests' = micRequests
           /\ stream' = "live" => stream = "live"
           /\ processor' = "node" => processor = "node"
           /\ captured' = captured
      ]_vars

\* C22: the step that receives a message either suspends one invocation
\* on a non-empty audio payload or, for a message without one, leaves
\* the waiting invocations as they are; in both cases it schedules
\* nothing and leaves nextStartTime, the capture graph and both contexts
\* unchanged.
NonAudioIgnored ==
    [][ received' # received
        => /\ \/ pending' = pending
              \/ \E m \in Messages :
                    m.hasData /\ m.len > 0 /\ pending' = Append(pending, m.len)
           /\ UNCHANGED <<nextStartTime, history, inputSource, processor,
                          stream, inputContext, outputContext, session,
                          currentTime, calls>>
      ]_vars

\* Messages arrived on an open session with its capture graph running,
\* none of them with audio: nothing waits and nothing was scheduled.
NonAudioIgnoredWitness ==
    /\ received >= 2
    /\ pending = <<>>
    /\ history = <<>>
    /\ nextStartTime = 0
    /\ processor = "node"
    /\ inputContext = "running"
    /\ outputContext = "running"

\* C23: the microphone is requested only once on-open has run, the
\* stream and the capture graph exist only after its await, a frame is
\* captured only through that graph, and no send is issued before the
\* connection promise has resolved, which it does only after on-open.
CaptureOnlyOnOpen ==
    /\ onOpenPc = "idle" => micRequests = 0 /\ ~resolved
    /\ onOpenPc # "done"
         => /\ stream = "none"
            /\ processor = "null"
            /\ inputSource = "null"
            /\ captured = <<>>
    /\ ~resolved => sent = <<>>
    /\ session = "connecting" => micRequests = 0 /\ sent = <<>>

\* Frames were captured after on-open acquired the microphone, and sent
\* once the connection promise had resolved.
CaptureOnlyOnOpenWitness ==
    /\ onOpenPc = "done"
    /\ stream = "live"
    /\ resolved
    /\ Len(captured) >= 2
    /\ Len(sent) = Len(captured)

\* C24: when onOpen leaves its await of getUserMedia after disconnect()
\* was called during that await, it leaves no capture node, sends no
\* frame, and the microphone stream is not live.
TeardownDuringAcquisition ==
    [][ (onOpenPc = "getUserMedia" /\ calls # <<>> /\ onOpenPc' = "done")
        => /\ stream' # "live"
           /\ processor' = "null"
           /\ inputSource' = "null"
           /\ sent' = sent
      ]_vars

\* The LiveSession instances that were constructed and not disconnected.
Active == {i \in DOMAIN instances : instances[i] = 0}

DisconnectAtMostOnce ==
    /\ \A i \in DOMAIN instances : instances[i] <= 1
    /\ liveSessionRef # 0 => instances[liveSessionRef] = 0

\* After a session was started, Home and then the unmount cleanup both
\* called stopLiveMode.
DisconnectAtMostOnceWitness ==
    /\ ~mounted
    /\ video = 0
    /\ instances # <<>>
    /\ \A i \in DOMAIN instances : instances[i] = 1
    /\ liveSessionRef = 0

\* C28: while a video is selected, a summary text and a chat session
\* that are set are about that video.
ResultBelongsToVideo ==
    video # 0 =>
        /\ summary.text \in {0, video}
        /\ chatSession \in {0, video}

\* The suspended invocations whose payload is valid audio.
ValidWaiting == {i \in DOMAIN pending : ~Malformed(pending[i])}

\* C27: when n valid payloads have been received, n units are eventually
\* scheduled; the invocation that resumes on a valid payload starts one
\* unit and advances nextStartTime past it by that unit's duration, and
\* units are scheduled by no other step.
EventuallyScheduledOnce ==
    /\ \A n \in 1..MaxMessages :
          [](Cardinality(Units) + Cardinality(ValidWaiting) >= n
                => <>(Cardinality(Units) >= n))
    /\ [][ (Len(pending') < Len(pending) /\ ~Malformed(Head(pending)))
           => /\ history' = Append(history, history'[Len(history')])
              /\ history'[Len(history')].ok
              /\ history'[Len(history')].len = Head(pending)
              /\ history'[Len(history')].dur
                    = (Head(pending) \div 2) \div NumChannels
              /\ nextStartTime' = history'[Len(history')].start
                                     + history'[Len(history')].dur
         ]_vars
    /\ [][ { i \in DOMAIN history' : history'[i].ok } # Units
           => /\ Len(pending') < Len(pending)
              /\ Cardinality({ i \in DOMAIN history' : history'[i].ok })
                    = Cardinality(Units) + 1
         ]_vars

\* Every message of the session carried valid audio and each was
\* scheduled, with the session still Open.
EventuallyScheduledOnceWitness ==
    /\ received = MaxMessages
    /\ Cardinality(Units) = MaxMessages
    /\ pending = <<>>
    /\ calls = <<>>

====
